---- MODULE Spec2Model ----
(***************************************************************************)
(* BitCask-Python: the append-only data file (src/src/datafile.py) and the *)
(* in-memory key directory (src/src/keydir.py).                            *)
(*                                                                         *)
(* One file on disk, one DataFile opened for appending ("w") and DataFile  *)
(* objects opened for reading on the same path.  The file objects are the  *)
(* ones Python's open(path, "ab") / open(path, "rb") return: a buffered    *)
(* writer on an O_APPEND descriptor, and a buffered reader with its        *)
(* read-ahead buffer.  Files of the model are shorter than the reader's    *)
(* buffer, so one fill of the buffer reads up to the end of the file.      *)
(***************************************************************************)
EXTENDS Integers, Sequences, FiniteSets, TLC

VARIABLES
    fileExists,   \* the path names a file
    fileBytes,    \* the bytes of that file
    fileHandle,   \* DataFile._fileHandle, per DataFile object
    fileSize,     \* DataFile._fileSize, per DataFile object
    index,        \* KeyDir._index
    last,         \* the most recent call: operation, object, arguments, outcome
    log,          \* history: the successful appendRecord calls, in order
    openedAt,     \* history: Len(log) when the object was last opened
    mutated,      \* history: per key, the last successful KeyDir mutation, and
                  \* whether it replaced or removed an entry
    truncates,    \* history: truncations of the file by a foreign handle
    orphaned,     \* per DataFile object: a file object an earlier open() of it
                  \* acquired is still open and no longer referred to by it
    refCounting   \* the interpreter closes a file object the moment nothing
                  \* refers to it (CPython); otherwise when its collector runs

vars == <<fileExists, fileBytes, fileHandle, fileSize, index, last, log,
          openedAt, mutated, truncates, orphaned, refCounting>>

dfVars == <<fileExists, fileBytes, fileHandle, fileSize, log, openedAt, truncates,
            orphaned, refCounting>>
kdVars == <<index, mutated>>

----------------------------------------------------------------------------
(* Bounds of the model *)

\* successful appendRecord calls in one behaviour
MaxAppends == 2
\* truncations of the file by a foreign handle in one behaviour
MaxTruncates == 1

\* the keys of the model: b"", b"\x01", b"\x02\x01"
Keys == {<<>>, <<1>>, <<2, 1>>}

\* the (key, value, timestamp) triples handed to appendRecord: a record with an
\* empty value, a record with a longer key and a value, an empty key, a
\* negative timestamp
AppendArgs ==
    {<<<<1>>, <<>>, 0>>, <<<<2, 1>>, <<3>>, 0>>, <<<<>>, <<3>>, 0>>, <<<<1>>, <<3>>, -1>>}

\* the DataFile objects: appendMode is fixed by the constructor
Writer == "w"
Readers == {"r", "r2"}
Segs == {Writer} \cup Readers
\* the writer and one reader
WriterAndReader == {Writer, "r"}
appendMode == [s \in Segs |-> s = Writer]

----------------------------------------------------------------------------
(* The record codec: struct.pack / struct.unpack with "!Q I I {k}s {v}s"   *)

\* struct.calcsize("!Q I I")
headerSize == 16

RECURSIVE bigEndian(_, _)
\* n as w bytes, most significant first ("!": network byte order, no padding)
bigEndian(n, w) ==
    IF w = 0 THEN <<>> ELSE Append(bigEndian(n \div 256, w - 1), n % 256)

RECURSIVE fromBigEndian(_)
\* the unsigned integer a big-endian byte string encodes
fromBigEndian(bytes) ==
    IF bytes = <<>> THEN 0
    ELSE 256 * fromBigEndian(SubSeq(bytes, 1, Len(bytes) - 1)) + bytes[Len(bytes)]

\* the alternate layout: a 4-byte total length before the timestamp
packWithLengthPrefix(timestamp, key, value) ==
    bigEndian(20 + Len(key) + Len(value), 4) \o bigEndian(timestamp, 8)
        \o bigEndian(Len(key), 4) \o bigEndian(Len(value), 4) \o key \o value

\* struct.pack(recordFormat, timestamp, keySize, valueSize, key, value)
pack(timestamp, key, value) ==
    bigEndian(timestamp, 8) \o bigEndian(Len(key), 4) \o bigEndian(Len(value), 4)
        \o key \o value

\* _, keySize, valueSize = struct.unpack("!Q I I", recordData[:headerSize])
unpackSizes(recordData) ==
    [keySize |-> fromBigEndian(SubSeq(recordData, 9, 12)),
     valueSize |-> fromBigEndian(SubSeq(recordData, 13, 16))]

\* bytes[a:b] of Python, for 0 <= a <= b
slice(bytes, a, b) ==
    SubSeq(bytes, a + 1, IF b < Len(bytes) THEN b ELSE Len(bytes))

----------------------------------------------------------------------------
(* The file objects *)

\* self._fileHandle = None
NoHandle == [open |-> FALSE, mode |-> "", rawPos |-> 0, buf |-> <<>>, bufPos |-> 0]

\* open(path, mode) followed by seek(0, 2): the descriptor is at the end of the
\* file and nothing is buffered
newHandle(mode, bytes) ==
    [open |-> TRUE, mode |-> mode, rawPos |-> Len(bytes), buf |-> <<>>, bufPos |-> 0]

\* fileHandle.tell(): the descriptor's offset less the read-ahead not yet consumed
tell(h) == h.rawPos - (Len(h.buf) - h.bufPos)

\* the target is taken from the current position (whence = 1)
seekFromCurrent(h, target) ==
    [h EXCEPT !.rawPos = tell(h) + target, !.buf = <<>>, !.bufPos = 0]

\* fileHandle.seek(offset): a reader whose buffer holds unread bytes and covers
\* the target only moves within the buffer; otherwise the descriptor is moved
\* and the buffer dropped
seek(h, target) ==
    LET avail == Len(h.buf) - h.bufPos
        delta == target - tell(h)
    IN  IF h.mode = "rb" /\ avail > 0 /\ delta >= -h.bufPos /\ delta <= avail
        THEN [h EXCEPT !.bufPos = h.bufPos + delta]
        ELSE [h EXCEPT !.rawPos = target, !.buf = <<>>, !.bufPos = 0]

\* fileHandle.read(n) of a reader: from the buffer when it holds n unread bytes;
\* otherwise the unread bytes, then the buffer is refilled from the descriptor's
\* offset up to the end of the file
read(h, n, bytes) ==
    LET avail == Len(h.buf) - h.bufPos
    IN  IF n <= avail
        THEN [data |-> SubSeq(h.buf, h.bufPos + 1, h.bufPos + n),
              handle |-> [h EXCEPT !.bufPos = h.bufPos + n]]
        ELSE LET head == SubSeq(h.buf, h.bufPos + 1, Len(h.buf))
                 chunk == SubSeq(bytes, h.rawPos + 1, Len(bytes))
                 take == IF n - avail < Len(chunk) THEN n - avail ELSE Len(chunk)
             IN  [data |-> head \o SubSeq(chunk, 1, take),
                  handle |-> [h EXCEPT !.rawPos = h.rawPos + Len(chunk),
                                       !.buf = chunk, !.bufPos = take]]

----------------------------------------------------------------------------
(* DataFile *)

\* what a call leaves in `last`: err is "" when the call returned
call(op, self, args, err, ret) ==
    [op |-> op, seg |-> self, args |-> args, err |-> err, ret |-> ret]

\* DataFile.size()
size(self) == fileSize[self]

\* a reopen keeps the size the object already holds
openKeepsSize(self) ==
    LET mode == IF appendMode[self] THEN "ab" ELSE "rb"
    IN  IF mode = "rb" /\ ~fileExists
        THEN /\ last' = call("open", self, <<>>, "IOError", <<>>)
             /\ UNCHANGED <<dfVars, kdVars>>
        ELSE /\ fileExists' = TRUE
             /\ fileHandle' = [fileHandle EXCEPT ![self] = newHandle(mode, fileBytes)]
             /\ fileSize' = [fileSize EXCEPT ![self] =
                                IF fileSize[self] > 0 THEN fileSize[self] ELSE Len(fileBytes)]
             /\ openedAt' = [openedAt EXCEPT ![self] = Len(log)]
             /\ last' = call("open", self, <<>>, "", <<>>)
             /\ orphaned' = [orphaned EXCEPT ![self] =
                                orphaned[self] \/ (fileHandle[self].open /\ ~refCounting)]
             /\ UNCHANGED <<fileBytes, log, truncates, refCounting, kdVars>>

\* DataFile.open()
open(self) ==
    LET mode == IF appendMode[self] THEN "ab" ELSE "rb"
    IN  IF mode = "rb" /\ ~fileExists
        THEN /\ last' = call("open", self, <<>>, "IOError", <<>>)
             /\ UNCHANGED <<dfVars, kdVars>>
        ELSE /\ fileExists' = TRUE
             /\ fileHandle' = [fileHandle EXCEPT ![self] = newHandle(mode, fileBytes)]
             /\ fileSize' = [fileSize EXCEPT ![self] = Len(fileBytes)]
             /\ openedAt' = [openedAt EXCEPT ![self] = Len(log)]
             /\ last' = call("open", self, <<>>, "", <<>>)
             /\ orphaned' = [orphaned EXCEPT ![self] =
                                orphaned[self] \/ (fileHandle[self].open /\ ~refCounting)]
             /\ UNCHANGED <<fileBytes, log, truncates, refCounting, kdVars>>

\* the handle is kept: only the call is recorded
closeKeepsHandle(self) ==
    /\ last' = call("close", self, <<>>, "", <<>>)
    /\ UNCHANGED <<dfVars, kdVars>>

\* close() of an object that holds no handle raises
closeRaisesWhenNotOpen(self) ==
    IF ~fileHandle[self].open
    THEN /\ last' = call("close", self, <<>>, "RuntimeError", <<>>)
         /\ UNCHANGED <<dfVars, kdVars>>
    ELSE /\ fileHandle' = [fileHandle EXCEPT ![self] = NoHandle]
         /\ last' = call("close", self, <<>>, "", <<>>)
         /\ UNCHANGED <<fileExists, fileBytes, fileSize, log, openedAt, truncates, orphaned, refCounting, kdVars>>

\* DataFile.close()
close(self) ==
    /\ fileHandle' = [fileHandle EXCEPT ![self] = NoHandle]
    /\ last' = call("close", self, <<>>, "", <<>>)
    /\ UNCHANGED <<fileExists, fileBytes, fileSize, log, openedAt, truncates, orphaned, refCounting, kdVars>>

\* the interpreter's collector finalizes the file objects that DataFile.open()
\* replaced without closing them: the finalizer closes them
finalize(self) ==
    /\ orphaned[self]
    /\ orphaned' = [orphaned EXCEPT ![self] = FALSE]
    /\ UNCHANGED <<fileExists, fileBytes, fileHandle, fileSize, log, openedAt,
                   truncates, refCounting, last, kdVars>>

\* the argument checks of appendRecord: "" when the arguments pass
appendArgsError(key, timestamp) ==
    IF key = <<>> THEN "ValueError"
    ELSE IF timestamp < 0 THEN "ValueError"
    ELSE ""

\* the size is advanced by the record's length from the offset tell() gave
appendIOSizeFromOffset(h, bytes, record) ==
    [offset |-> tell(h),
     bytes |-> bytes \o record,
     handle |-> [h EXCEPT !.rawPos = Len(bytes) + Len(record)],
     size |-> tell(h) + Len(record)]

\* a descriptor without O_APPEND: the record is written at the offset tell() gave,
\* over the bytes that are there
appendIOAtOffset(h, bytes, record) ==
    [offset |-> tell(h),
     bytes |-> SubSeq(bytes, 1, tell(h)) \o record
                   \o SubSeq(bytes, tell(h) + Len(record) + 1, Len(bytes)),
     handle |-> [h EXCEPT !.rawPos = tell(h) + Len(record)],
     size |-> tell(h) + Len(record)]

\* offset = tell(); write(record); flush(); _fileSize = tell(): the descriptor is
\* O_APPEND, so the write lands at the end of the file whatever the offset was,
\* and leaves the offset at the new end
appendIO(h, bytes, record) ==
    [offset |-> tell(h),
     bytes |-> bytes \o record,
     handle |-> [h EXCEPT !.rawPos = Len(bytes) + Len(record)],
     size |-> Len(bytes) + Len(record)]

\* the arguments are checked only once the record is written
appendRecordChecksAfterWrite(self, key, value, timestamp) ==
    LET h == fileHandle[self]
        args == <<key, value, timestamp>>
        record == pack(IF timestamp < 0 THEN 0 ELSE timestamp, key, value)
        io == appendIO(h, fileBytes, record)
        err == appendArgsError(key, timestamp)
    IN  IF ~h.open
        THEN /\ last' = call("appendRecord", self, args, "RuntimeError", <<>>)
             /\ UNCHANGED <<dfVars, kdVars>>
        ELSE IF h.mode # "ab"
        THEN /\ last' = call("appendRecord", self, args, "UnsupportedOperation", <<>>)
             /\ UNCHANGED <<dfVars, kdVars>>
        ELSE /\ Len(log) < MaxAppends
             /\ fileBytes' = io.bytes
             /\ fileHandle' = [fileHandle EXCEPT ![self] = io.handle]
             /\ fileSize' = [fileSize EXCEPT ![self] = io.size]
             /\ log' = IF err # "" THEN log
                       ELSE Append(log, [key |-> key, value |-> value, timestamp |-> timestamp,
                                         offset |-> io.offset, length |-> Len(record),
                                         start |-> Len(fileBytes), sizeBefore |-> fileSize[self],
                                         cut |-> FALSE])
             /\ last' = call("appendRecord", self, args, err,
                             IF err # "" THEN <<>> ELSE <<io.offset, Len(record)>>)
             /\ UNCHANGED <<fileExists, openedAt, truncates, orphaned, refCounting, kdVars>>

\* DataFile.appendRecord(key, value, timestamp)
appendRecord(self, key, value, timestamp) ==
    LET h == fileHandle[self]
        args == <<key, value, timestamp>>
        record == pack(timestamp, key, value)
        io == appendIO(h, fileBytes, record)
    IN  IF ~h.open
        THEN /\ last' = call("appendRecord", self, args, "RuntimeError", <<>>)
             /\ UNCHANGED <<dfVars, kdVars>>
        ELSE IF appendArgsError(key, timestamp) # ""
        THEN /\ last' = call("appendRecord", self, args, appendArgsError(key, timestamp), <<>>)
             /\ UNCHANGED <<dfVars, kdVars>>
        ELSE IF h.mode # "ab"
        THEN \* tell() answers, write() raises: the handle is not writable
             /\ last' = call("appendRecord", self, args, "UnsupportedOperation", <<>>)
             /\ UNCHANGED <<dfVars, kdVars>>
        ELSE /\ Len(log) < MaxAppends
             /\ fileBytes' = io.bytes
             /\ fileHandle' = [fileHandle EXCEPT ![self] = io.handle]
             /\ fileSize' = [fileSize EXCEPT ![self] = io.size]
             /\ log' = Append(log, [key |-> key, value |-> value, timestamp |-> timestamp,
                                    offset |-> io.offset, length |-> Len(record),
                                    start |-> Len(fileBytes), sizeBefore |-> fileSize[self],
                                    cut |-> FALSE])
             /\ last' = call("appendRecord", self, args, "", <<io.offset, Len(record)>>)
             /\ UNCHANGED <<fileExists, openedAt, truncates, orphaned, refCounting, kdVars>>

\* the bound is the file's length now, not the size recorded at open
exceedsLiveFileSize(recordedSize, offset, length) ==
    offset > Len(fileBytes) \/ length > Len(fileBytes) - offset

\* offset > self._fileSize or length > self._fileSize - offset
exceedsFileSize(recordedSize, offset, length) ==
    offset > recordedSize \/ length > recordedSize - offset

\* the decoding of the bytes read: header, then key and value by the header's sizes
decode(recordData) ==
    IF Len(recordData) < headerSize
    THEN [err |-> "IndexError", ret |-> <<>>]
    ELSE LET sizes == unpackSizes(recordData)
             keyStart == headerSize
             keyEnd == keyStart + sizes.keySize
             valueStart == keyEnd
             valueEnd == valueStart + sizes.valueSize
         IN  IF valueEnd > Len(recordData)
             THEN [err |-> "IndexError", ret |-> <<>>]
             ELSE [err |-> "",
                   ret |-> <<slice(recordData, keyStart, keyEnd),
                             slice(recordData, valueStart, valueEnd)>>]

\* DataFile.readRecord(offset, length)
readRecord(self, offset, length) ==
    LET h == fileHandle[self]
        args == <<offset, length>>
        sought == seek(h, offset)
        got == read(sought, length, fileBytes)
        out == decode(got.data)
    IN  IF ~h.open
        THEN /\ last' = call("readRecord", self, args, "RuntimeError", <<>>)
             /\ UNCHANGED <<dfVars, kdVars>>
        ELSE IF offset < 0 \/ length < 0
        THEN /\ last' = call("readRecord", self, args, "ValueError", <<>>)
             /\ UNCHANGED <<dfVars, kdVars>>
        ELSE IF exceedsFileSize(fileSize[self], offset, length)
        THEN /\ last' = call("readRecord", self, args, "IndexError", <<>>)
             /\ UNCHANGED <<dfVars, kdVars>>
        ELSE IF h.mode # "rb"
        THEN \* seek() moves the descriptor, read() raises: the handle is not readable
             /\ fileHandle' = [fileHandle EXCEPT ![self] = sought]
             /\ last' = call("readRecord", self, args, "UnsupportedOperation", <<>>)
             /\ UNCHANGED <<fileExists, fileBytes, fileSize, log, openedAt, truncates, orphaned, refCounting, kdVars>>
        ELSE /\ fileHandle' = [fileHandle EXCEPT ![self] = got.handle]
             /\ last' = call("readRecord", self, args, out.err, out.ret)
             /\ UNCHANGED <<fileExists, fileBytes, fileSize, log, openedAt, truncates, orphaned, refCounting, kdVars>>

\* a foreign handle truncates the file to n bytes (open(path, "r+b").truncate(n))
Truncate(n) ==
    /\ fileExists
    /\ truncates < MaxTruncates
    /\ n < Len(fileBytes)
    /\ fileBytes' = SubSeq(fileBytes, 1, n)
    /\ truncates' = truncates + 1
    /\ log' = [i \in 1..Len(log) |->
                 IF log[i].start < n /\ n < log[i].start + log[i].length
                 THEN [log[i] EXCEPT !.cut = TRUE] ELSE log[i]]
    /\ last' = call("truncate", "", <<n>>, "", <<>>)
    /\ UNCHANGED <<fileExists, fileHandle, fileSize, openedAt, orphaned, refCounting, kdVars>>

\* the lengths the foreign handle truncates to: a record cut within its header,
\* or right behind its header
TruncateLengths ==
    UNION {{log[i].start + log[i].length \div 2, log[i].start + headerSize} :
           i \in 1..Len(log)}

\* the (offset, length) pairs handed to readRecord: what appendRecord returned,
\* where the records really are, a bare header, the whole file and one byte
\* more, and negative arguments
ReadArgs ==
    {<<-1, headerSize>>, <<0, -1>>, <<0, headerSize>>, <<0, Len(fileBytes) + 1>>}
        \cup {<<log[i].offset, log[i].length>> : i \in 1..Len(log)}
        \cup {<<log[i].start, log[i].length>> : i \in 1..Len(log)}

\* the (offset, length) pairs the readers are handed next to a writer: what
\* appendRecord returned, and the header of the first record
RecordArgs ==
    {<<0, headerSize>>} \cup {<<log[i].offset, log[i].length>> : i \in 1..Len(log)}

----------------------------------------------------------------------------
(* KeyDir *)

\* the keys and the numeric fields handed to the directory
KdKeys == Keys \ {<<>>}
FileIDs == {-1, 0, 1}
ValueSizes == {-1, 0, 1}
ValuePositions == {-1, 0}
EntryTimestamps == {-1, 0}

\* dict.get's None
NoEntry == <<>>

\* the size and the position change places
KeyDirEntrySwapped(fileID, valueSize, valuePos, timestamp) ==
    <<fileID, valuePos, valueSize, timestamp>>

\* KeyDirEntry(fileID, valueSize, valuePos, timestamp): a named tuple
KeyDirEntry(fileID, valueSize, valuePos, timestamp) ==
    <<fileID, valueSize, valuePos, timestamp>>

\* the argument checks of addEntry: "" when the arguments pass
addEntryError(key, fileID, valueSize, valuePos, timestamp) ==
    IF key = <<>> THEN "ValueError"
    ELSE IF fileID < 0 \/ valueSize < 0 \/ valuePos < 0 THEN "ValueError"
    ELSE ""

\* an existing key keeps its entry
indexPutIfAbsent(idx, key, entry) ==
    [k \in DOMAIN idx \cup {key} |-> IF k \in DOMAIN idx THEN idx[k] ELSE entry]

\* self._index[key] = entry
indexPut(idx, key, entry) ==
    [k \in DOMAIN idx \cup {key} |-> IF k = key THEN entry ELSE idx[k]]

\* self._index.get(key)
indexGet(idx, key) ==
    IF key \in DOMAIN idx THEN idx[key] ELSE NoEntry

\* the key stays in the index
indexDelNothing(idx, key) == idx

\* the whole index is emptied
indexClear(idx, key) == [k \in {} |-> NoEntry]

\* if key in self._index: del self._index[key]
indexDel(idx, key) ==
    [k \in DOMAIN idx \ {key} |-> idx[k]]

\* KeyDir.addEntry(key, fileID, valueSize, valuePos, timestamp)
addEntry(key, fileID, valueSize, valuePos, timestamp) ==
    LET args == <<key, fileID, valueSize, valuePos, timestamp>>
        err == addEntryError(key, fileID, valueSize, valuePos, timestamp)
        entry == KeyDirEntry(fileID, valueSize, valuePos, timestamp)
    IN  IF err # ""
        THEN /\ last' = call("addEntry", "", args, err, <<>>)
             /\ UNCHANGED <<dfVars, kdVars>>
        ELSE /\ index' = indexPut(index, key, entry)
             /\ mutated' = [mutated EXCEPT ![key] =
                    [op |-> "add", entry |-> entry,
                     had |-> key \in DOMAIN index /\ index[key] # entry]]
             /\ last' = call("addEntry", "", args, "", <<>>)
             /\ UNCHANGED dfVars

\* KeyDir.getEntry(key)
getEntry(key) ==
    /\ last' = IF key = <<>>
               THEN call("getEntry", "", <<key>>, "ValueError", <<>>)
               ELSE call("getEntry", "", <<key>>, "", indexGet(index, key))
    /\ UNCHANGED <<dfVars, kdVars>>

\* KeyDir.removeEntry(key)
removeEntry(key) ==
    IF key = <<>>
    THEN /\ last' = call("removeEntry", "", <<key>>, "ValueError", <<>>)
         /\ UNCHANGED <<dfVars, kdVars>>
    ELSE /\ index' = indexDel(index, key)
         /\ mutated' = [mutated EXCEPT ![key] =
                [op |-> "remove", entry |-> NoEntry, had |-> key \in DOMAIN index]]
         /\ last' = call("removeEntry", "", <<key>>, "", <<>>)
         /\ UNCHANGED dfVars

----------------------------------------------------------------------------
(* Specifications *)

\* DataFile.__init__ on a path that names no file yet; KeyDir.__init__
Init ==
    /\ fileExists = FALSE
    /\ fileBytes = <<>>
    /\ fileHandle = [s \in Segs |-> NoHandle]
    /\ fileSize = [s \in Segs |-> 0]
    /\ index = [k \in {} |-> NoEntry]
    /\ last = call("init", "", <<>>, "", <<>>)
    /\ log = <<>>
    /\ openedAt = [s \in Segs |-> 0]
    /\ mutated = [k \in KdKeys |-> [op |-> "none", entry |-> NoEntry, had |-> FALSE]]
    /\ truncates = 0
    /\ orphaned = [s \in Segs |-> FALSE]
    /\ refCounting = TRUE

\* the calls on the DataFile objects
Next ==
    \/ \E self \in WriterAndReader : open(self)
    \/ \E self \in WriterAndReader : close(self)
    \/ \E self \in WriterAndReader, args \in AppendArgs :
           appendRecord(self, args[1], args[2], args[3])
    \/ \E self \in WriterAndReader, args \in ReadArgs :
           readRecord(self, args[1], args[2])

\* the DataFile objects alone own the file
Spec == Init /\ [][Next]_vars

\* each DataFile object used in its own mode, and a foreign handle that
\* truncates the file
NextTrunc ==
    \/ \E self \in WriterAndReader : open(self)
    \/ \E self \in WriterAndReader : close(self)
    \/ \E args \in AppendArgs : appendRecord(Writer, args[1], args[2], args[3])
    \/ \E args \in ReadArgs : readRecord("r", args[1], args[2])
    \/ \E n \in TruncateLengths : Truncate(n)

SpecTrunc == Init /\ [][NextTrunc]_vars

\* objects opened, closed and reopened, appends on the writer, and a foreign
\* handle that truncates the file
NextReopen ==
    \/ \E self \in WriterAndReader : open(self)
    \/ \E self \in WriterAndReader : close(self)
    \/ \E args \in AppendArgs : appendRecord(Writer, args[1], args[2], args[3])
    \/ \E n \in TruncateLengths : Truncate(n)

SpecReopen == Init /\ [][NextReopen]_vars

\* one writer and the readers, each used in its own mode, on a file no one else
\* touches
NextReaders ==
    \/ \E self \in Segs : open(self)
    \/ \E self \in Segs : close(self)
    \/ \E args \in AppendArgs : appendRecord(Writer, args[1], args[2], args[3])
    \/ \E self \in Readers, args \in RecordArgs : readRecord(self, args[1], args[2])

SpecReaders == Init /\ [][NextReaders]_vars

\* as Init, under an interpreter of either kind
InitHandles ==
    /\ fileExists = FALSE
    /\ fileBytes = <<>>
    /\ fileHandle = [s \in Segs |-> NoHandle]
    /\ fileSize = [s \in Segs |-> 0]
    /\ index = [k \in {} |-> NoEntry]
    /\ last = call("init", "", <<>>, "", <<>>)
    /\ log = <<>>
    /\ openedAt = [s \in Segs |-> 0]
    /\ mutated = [k \in KdKeys |-> [op |-> "none", entry |-> NoEntry, had |-> FALSE]]
    /\ truncates = 0
    /\ orphaned = [s \in Segs |-> FALSE]
    /\ refCounting \in BOOLEAN

\* open() and close() in any order, appends on the writer, and the collector
NextHandles ==
    \/ \E self \in WriterAndReader : open(self)
    \/ \E self \in WriterAndReader : close(self)
    \/ \E args \in AppendArgs : appendRecord(Writer, args[1], args[2], args[3])
    \/ \E self \in WriterAndReader : finalize(self)

SpecHandles == InitHandles /\ [][NextHandles]_vars

\* the (key, value, timestamp) triples written through the store's write flow:
\* a key written with two different values, another key, a negative timestamp
WriteArgs ==
    {<<<<1>>, <<>>, 0>>, <<<<1>>, <<3>>, 0>>, <<<<2, 1>>, <<3>>, 0>>, <<<<1>>, <<3>>, -1>>}

\* the one data file's fileID in the directory
storeFileID == 0

\* appendRecord has returned and the addEntry of the same write is still to come
writePending == last.op = "appendRecord" /\ last.err = ""

\* the calls of a store that follows the control flows: a write is appendRecord
\* on the writer, then addEntry with the length and the offset it returned; a
\* delete is removeEntry; a read is getEntry, then readRecord on the reader at
\* the entry's position and size
NextStore ==
    \/ ~writePending /\ \E self \in WriterAndReader : open(self)
    \/ ~writePending /\ \E self \in WriterAndReader : close(self)
    \/ ~writePending /\ \E args \in WriteArgs :
           appendRecord(Writer, args[1], args[2], args[3])
    \/ writePending /\ addEntry(last.args[1], storeFileID, last.ret[2], last.ret[1],
                                last.args[3])
    \/ ~writePending /\ \E key \in KdKeys : removeEntry(key)
    \/ ~writePending /\ \E key \in KdKeys : getEntry(key)
    \/ /\ last.op = "getEntry" /\ last.err = "" /\ last.ret # NoEntry
       /\ readRecord("r", last.ret[3], last.ret[2])

SpecStore == Init /\ [][NextStore]_vars

\* the calls on the KeyDir
NextKeyDir ==
    \/ \E key \in Keys, fileID \in FileIDs, valueSize \in ValueSizes,
          valuePos \in ValuePositions, timestamp \in EntryTimestamps :
           addEntry(key, fileID, valueSize, valuePos, timestamp)
    \/ \E key \in Keys : getEntry(key)
    \/ \E key \in Keys : removeEntry(key)

SpecKeyDir == Init /\ [][NextKeyDir]_vars

----------------------------------------------------------------------------
(* Properties of the data file *)

RECURSIVE SumLengths(_)
\* the encoded lengths of the records of a history, added up
SumLengths(h) ==
    IF h = <<>> THEN 0 ELSE h[Len(h)].length + SumLengths(SubSeq(h, 1, Len(h) - 1))

\* C1: a record appended on the append-mode object and read on a read-mode object
\* opened after the append and still open, with the (offset, length) appendRecord
\* returned, comes back as exactly (key, value)
C1_RoundTrip ==
    (last.op = "readRecord" /\ last.seg \in Readers /\ fileHandle[last.seg].open) =>
        \A i \in 1..Len(log) :
            (i <= openedAt[last.seg] /\ last.args = <<log[i].offset, log[i].length>>)
                => (last.err = "" /\ last.ret = <<log[i].key, log[i].value>>)

\* C2: every successful appendRecord returns as offset the position where its
\* record begins in the file, which is size() right before the call: 0 for the
\* first record of an empty file, the end of the previous record afterwards
C2_OffsetIsRecordStart ==
    \A i \in 1..Len(log) :
        /\ log[i].offset = log[i].start
        /\ log[i].offset = log[i].sizeBefore
        /\ log[i].offset = SumLengths(SubSeq(log, 1, i - 1))

\* C3: a successful appendRecord returns length = 16 + len(key) + len(value) and
\* the file grows by exactly that many bytes; a 10-byte key with a 12-byte value
\* makes a 38-byte record
C3_RecordLength ==
    [][(last'.op = "appendRecord" /\ last'.err = "") =>
          /\ last'.ret[2] = 16 + Len(last'.args[1]) + Len(last'.args[2])
          /\ Len(fileBytes') = Len(fileBytes) + last'.ret[2]
          /\ Len(pack(1122334455, <<83, 97, 109, 112, 108, 101, 32, 75, 101, 121>>,
                      <<83, 97, 109, 112, 108, 101, 32, 86, 97, 108, 117, 101>>)) = 38]_vars

\* the second of two appends has returned, the record has a value
C3_Witness ==
    /\ last.op = "appendRecord" /\ last.err = ""
    /\ Len(log) = 2
    /\ last.args[2] # <<>>
    /\ last.ret[2] = 16 + Len(last.args[1]) + Len(last.args[2])

\* C4: size() of the append-mode object is the sum of the encoded lengths of the
\* records appended, and never decreases while the object is open
C4_SizeIsSumOfLengths ==
    /\ [](size(Writer) = SumLengths(log))
    /\ [][(fileHandle[Writer].open /\ fileHandle'[Writer].open)
             => fileSize'[Writer] >= fileSize[Writer]]_vars

\* two records of different lengths are appended and the object is still open
C4_Witness ==
    /\ Len(log) = 2
    /\ fileHandle[Writer].open
    /\ log[1].length # log[2].length
    /\ size(Writer) = log[1].length + log[2].length

\* C5: readRecord fails when offset + length exceeds the size recorded at the
\* object's last open, and when offset or length is negative; a reader opened
\* before an append rejects the place of the appended record
C5_BoundsRejection ==
    last.op = "readRecord" =>
        /\ (last.args[1] < 0 \/ last.args[2] < 0) => last.err # ""
        /\ (last.args[1] >= 0 /\ last.args[2] >= 0
                /\ last.args[1] + last.args[2] > size(last.seg))
              => (last.err # "" /\ last.ret = <<>>)
        /\ \A i \in 1..Len(log) :
              (last.seg \in Readers /\ i > openedAt[last.seg]
                   /\ last.args = <<log[i].start, log[i].length>>)
                 => last.err # ""

\* an open reader, opened before the last append, is asked for the appended
\* record, which the file holds in full, and answers IndexError
C5_Witness ==
    /\ last.op = "readRecord" /\ last.seg \in Readers
    /\ fileHandle[last.seg].open
    /\ \E i \in 1..Len(log) :
          /\ i > openedAt[last.seg]
          /\ last.args = <<log[i].start, log[i].length>>
          /\ log[i].start + log[i].length <= Len(fileBytes)
    /\ last.err = "IndexError"

\* C6: once the file was truncated in the middle of a record, every readRecord
\* at that record's (offset, length) fails
C6_TruncationDetected ==
    (last.op = "readRecord" /\ last.seg \in Readers) =>
        \A i \in 1..Len(log) :
            (log[i].cut /\ log[i].offset = log[i].start
                 /\ last.args = <<log[i].offset, log[i].length>>)
                => last.err # ""

\* C10: appendRecord with an empty key or a negative timestamp fails, with
\* ValueError on an open object, and changes neither the file nor the object
C10_RejectedAppendChangesNothing ==
    [][(last'.op = "appendRecord" /\ (last'.args[1] = <<>> \/ last'.args[3] < 0)) =>
          /\ last'.err # ""
          /\ fileHandle[last'.seg].open => last'.err = "ValueError"
          /\ UNCHANGED <<fileExists, fileBytes, fileHandle, fileSize, log>>]_vars

\* the open append-mode object, holding a record, has rejected a negative timestamp
C10_Witness ==
    /\ last.op = "appendRecord" /\ last.seg = Writer
    /\ last.args[1] # <<>> /\ last.args[3] < 0
    /\ last.err = "ValueError"
    /\ fileHandle[Writer].open
    /\ Len(log) = 1 /\ Len(fileBytes) = log[1].length /\ size(Writer) = Len(fileBytes)

\* C11: on an object that is not open (never opened, or closed and not reopened)
\* appendRecord and readRecord fail, with RuntimeError, and change neither the
\* file nor size(); no appendRecord or readRecord succeeds on an object that is
\* not open, and none succeeds right after the object's close()
C11_StateErrors ==
    /\ []((last.op \in {"appendRecord", "readRecord"} /\ last.err = "")
             => fileHandle[last.seg].open)
    /\ [][(last'.op \in {"appendRecord", "readRecord"} /\ last'.seg \in Segs
              /\ (~fileHandle[last'.seg].open \/ (last.op = "close" /\ last.seg = last'.seg)))
             => /\ last'.err = "RuntimeError"
                /\ UNCHANGED <<fileExists, fileBytes, fileSize>>]_vars

\* a reader that was opened on a file holding a record and then closed is asked
\* for that record, and answers RuntimeError
C11_Witness ==
    /\ last.op = "readRecord" /\ last.seg \in Readers
    /\ ~fileHandle[last.seg].open
    /\ Len(log) >= 1 /\ openedAt[last.seg] >= 1
    /\ last.args = <<log[1].start, log[1].length>>
    /\ size(last.seg) >= log[1].length
    /\ last.err = "RuntimeError"

\* C12: appendRecord on an open read-mode object and readRecord on an open
\* append-mode object fail, return nothing, and leave the file bytes, size() and
\* the offset the object's next appendRecord returns (tell() of its handle) as
\* they were before the call
C12_ModeExclusivity ==
    [][(/\ last'.seg \in Segs
        /\ fileHandle[last'.seg].open
        /\ \/ last'.op = "appendRecord" /\ ~appendMode[last'.seg]
           \/ last'.op = "readRecord" /\ appendMode[last'.seg])
          => /\ last'.err # "" /\ last'.ret = <<>>
             /\ UNCHANGED <<fileExists, fileBytes, fileSize>>
             /\ tell(fileHandle'[last'.seg]) = tell(fileHandle[last'.seg])]_vars

\* C13: close() never raises, also on an object never opened or already closed,
\* and leaves the object without a handle; close() of an object that is not open
\* changes nothing, so closing twice is closing once; an open() right after a
\* close() succeeds (for a reader: when the file exists) and opens the object
C13_CloseIdempotent ==
    /\ [][last'.op = "close" =>
             /\ last'.err = ""
             /\ fileHandle'[last'.seg] = NoHandle
             /\ (~fileHandle[last'.seg].open) =>
                    UNCHANGED <<fileExists, fileBytes, fileHandle, fileSize>>]_vars
    /\ [][(last.op = "close" /\ last'.op = "open" /\ last'.seg = last.seg
              /\ (appendMode[last.seg] \/ fileExists))
             => (last'.err = "" /\ fileHandle'[last'.seg].open)]_vars

\* the writer, in its second open/close cycle or later, with a record in the
\* file, is closed again while it is already closed
C13_Witness ==
    /\ last.op = "close" /\ last.seg = Writer /\ last.err = ""
    /\ ~fileHandle[Writer].open
    /\ openedAt[Writer] >= 1
    /\ size(Writer) = Len(fileBytes) /\ Len(fileBytes) > 0

\* C14: an object that is not open reports no size from a closed session:
\* size() is 0 whenever the object holds no handle
C14_CloseClearsState ==
    \A s \in Segs : ~fileHandle[s].open => (fileHandle[s] = NoHandle /\ size(s) = 0)

\* C15: right after every successful open(), of either mode, first or repeated,
\* size() is the length of the file at that moment, 0 for a file the open
\* created, also when the file grew or was truncated while the object was
\* closed; an appendRecord of the append-mode object that follows its open()
\* returns that size as offset, and its record begins there
C15_OpenSetsSize ==
    /\ [][(last'.op = "open" /\ last'.err = "") =>
             /\ fileSize'[last'.seg] = Len(fileBytes')
             /\ fileBytes' = fileBytes
             /\ (~fileExists) => fileSize'[last'.seg] = 0]_vars
    /\ [][(last.op = "open" /\ last.err = "" /\ last.seg = Writer
              /\ last'.op = "appendRecord" /\ last'.err = "" /\ last'.seg = Writer)
             => /\ last'.ret[1] = size(Writer)
                /\ log'[Len(log')].start = size(Writer)]_vars

\* the writer was reopened on a file truncated while it was closed, and its
\* append after that open begins at the truncated length
C15_Witness ==
    /\ last.op = "appendRecord" /\ last.err = "" /\ last.seg = Writer
    /\ Len(log) = 2 /\ truncates = 1 /\ openedAt[Writer] = 1
    /\ log[1].cut
    /\ log[2].start < log[1].length
    /\ log[2].offset = log[2].start /\ log[2].sizeBefore = log[2].start
    /\ size(Writer) = Len(fileBytes)

\* C16: on a file only the DataFile objects touch, every call (open,
\* appendRecord, readRecord, close, successful or failed) leaves the bytes the
\* file held before it as a prefix of the bytes it holds after it, and every
\* record appended stays, byte for byte, where it was written
C16_AppendOnly ==
    /\ [][/\ Len(fileBytes') >= Len(fileBytes)
          /\ SubSeq(fileBytes', 1, Len(fileBytes)) = fileBytes]_vars
    /\ [](\A i \in 1..Len(log) :
             SubSeq(fileBytes, log[i].start + 1, log[i].start + log[i].length)
                 = pack(log[i].timestamp, log[i].key, log[i].value))

\* a second record was appended after a failed readRecord had moved the append
\* handle back to the start of the file, the objects were closed and reopened,
\* and the file is the first record followed by the second
C16_Witness ==
    /\ Len(log) = 2
    /\ log[2].offset = 0 /\ log[2].start = log[1].length
    /\ openedAt[Writer] = 2 /\ last.op = "readRecord" /\ last.seg \in Readers
    /\ fileBytes = pack(log[1].timestamp, log[1].key, log[1].value)
                      \o pack(log[2].timestamp, log[2].key, log[2].value)

\* C17: with one writer appending and independent readers reading the same file,
\* a readRecord on a reader changes neither the file, nor the writer's size() or
\* the offset its next append returns, nor any other reader; and a readRecord on
\* an open reader, at the (offset, length) returned for a record appended before
\* the reader was opened, returns that record's key and value, whatever was
\* appended since
C17_OneWriterManyReaders ==
    /\ [][(last'.op = "readRecord" /\ last'.seg \in Readers) =>
             /\ UNCHANGED <<fileExists, fileBytes, fileSize>>
             /\ \A s \in Segs \ {last'.seg} : fileHandle'[s] = fileHandle[s]
             /\ tell(fileHandle'[Writer]) = tell(fileHandle[Writer])]_vars
    /\ []((last.op = "readRecord" /\ last.seg \in Readers /\ fileHandle[last.seg].open) =>
             \A i \in 1..Len(log) :
                 (i <= openedAt[last.seg] /\ last.args = <<log[i].offset, log[i].length>>)
                     => (last.err = "" /\ last.ret = <<log[i].key, log[i].value>>))

\* a reader opened between two appends has returned the first record after the
\* second append, while the other reader, opened after both, holds read-ahead of
\* its own
C17_Witness ==
    /\ last.op = "readRecord" /\ last.seg \in Readers /\ last.err = ""
    /\ Len(log) = 2 /\ openedAt[last.seg] = 1
    /\ last.args = <<log[1].offset, log[1].length>>
    /\ last.ret = <<log[1].key, log[1].value>>
    /\ \E s \in Readers \ {last.seg} :
          /\ fileHandle[s].open /\ openedAt[s] = 2
          /\ fileHandle[s].buf # <<>>

\* the file objects an object's open() calls acquired that are still open: the
\* one it refers to, and one or more it no longer refers to
openHandles(self) ==
    (IF fileHandle[self].open THEN 1 ELSE 0) + (IF orphaned[self] THEN 1 ELSE 0)

\* C18: whatever the order of open() and close() calls on an object, at most one
\* file object acquired by it is open, and when close() has returned none is
C18_HandleDiscipline ==
    /\ \A s \in Segs : openHandles(s) <= 1
    /\ last.op = "close" => openHandles(last.seg) = 0

----------------------------------------------------------------------------
(* Properties of the key directory *)

\* C7: getEntry(key) returns the descriptor of the most recent successful
\* addEntry for the key, when no removeEntry of the key came after it
C7_LastWriteWins ==
    /\ \A k \in KdKeys : mutated[k].op = "add" => indexGet(index, k) = mutated[k].entry
    /\ (last.op = "getEntry" /\ last.err = "" /\ mutated[last.args[1]].op = "add")
          => last.ret = mutated[last.args[1]].entry

\* getEntry has returned the descriptor that replaced another one
C7_Witness ==
    /\ last.op = "getEntry" /\ last.err = ""
    /\ mutated[last.args[1]].op = "add" /\ mutated[last.args[1]].had
    /\ last.ret = mutated[last.args[1]].entry

\* C8: removeEntry of an absent key raises nothing and leaves the directory as it
\* was; after removeEntry(k), getEntry(k) returns None; the directory holds
\* exactly the keys whose last successful mutation was an addEntry
C8_RemoveSemantics ==
    /\ [](/\ DOMAIN index = {k \in KdKeys : mutated[k].op = "add"}
          /\ (last.op = "getEntry" /\ last.err = "" /\ mutated[last.args[1]].op # "add")
                => last.ret = NoEntry)
    /\ [][(last'.op = "removeEntry" /\ last'.args[1] # <<>>
              /\ last'.args[1] \notin DOMAIN index)
             => (last'.err = "" /\ index' = index)]_vars

\* getEntry has returned None for a key that was added and then removed, while
\* another key is still in the directory
C8_Witness ==
    /\ last.op = "getEntry" /\ last.err = "" /\ last.ret = NoEntry
    /\ mutated[last.args[1]].op = "remove" /\ mutated[last.args[1]].had
    /\ DOMAIN index # {}

\* C9: addEntry fails on an empty key and on a negative fileID, valueSize,
\* valuePos or timestamp; no entry with a negative field is in the directory
C9_NegativeFieldsRejected ==
    /\ (last.op = "addEntry"
          /\ (last.args[1] = <<>> \/ \E j \in 2..5 : last.args[j] < 0))
          => last.err = "ValueError"
    /\ \A k \in DOMAIN index : \A j \in 1..4 : index[k][j] >= 0

\* C19: getEntry never changes the directory, whether the key is present, absent
\* or empty; a successful addEntry(k, ...) or removeEntry(k) leaves, for every
\* other key, what getEntry returns for it as it was
C19_DirectoryFrame ==
    [][/\ last'.op = "getEntry" => index' = index
       /\ (last'.op \in {"addEntry", "removeEntry"} /\ last'.err = "") =>
              \A k \in KdKeys \ {last'.args[1]} : indexGet(index', k) = indexGet(index, k)]_vars

\* a key that was in the directory has been removed, and the other key is still
\* there with the entry last added for it
C19_Witness ==
    /\ last.op = "removeEntry" /\ last.err = ""
    /\ mutated[last.args[1]].op = "remove" /\ mutated[last.args[1]].had
    /\ \E k \in KdKeys \ {last.args[1]} :
          /\ mutated[k].op = "add"
          /\ indexGet(index, k) = mutated[k].entry

----------------------------------------------------------------------------
(* Properties of the data file and the key directory together *)

\* the value of the most recent appendRecord of the key
latestValue(key) ==
    LET i == CHOOSE i \in 1..Len(log) :
                 log[i].key = key /\ \A j \in (i + 1)..Len(log) : log[j].key # key
    IN  log[i].value

\* C20: when every write is appendRecord on the writer followed by addEntry with
\* the returned offset and length, and every delete is removeEntry, then for
\* every key the directory holds, readRecord at the entry's position and size,
\* on an open reader opened after the last write, succeeds and returns the key
\* with the value last written for it; and the directory holds exactly the keys
\* written and not removed since
C20_EndToEnd ==
    /\ [][(/\ last.op = "getEntry" /\ last.err = "" /\ last.ret # NoEntry
            /\ last'.op = "readRecord"
            /\ fileHandle["r"].open /\ openedAt["r"] = Len(log))
              => /\ last'.err = ""
                 /\ last'.ret = <<last.args[1], latestValue(last.args[1])>>]_vars
    /\ [](~writePending =>
             /\ DOMAIN index = {k \in KdKeys : mutated[k].op = "add"}
             /\ \A k \in DOMAIN index : \E i \in 1..Len(log) : log[i].key = k)

\* a key was written twice with different values, the directory holds that key
\* alone, and the read through the directory on a reader opened after both
\* writes has returned the second value
C20_Witness ==
    /\ last.op = "readRecord" /\ last.err = ""
    /\ Len(log) = 2 /\ log[1].key = log[2].key /\ log[1].value # log[2].value
    /\ openedAt["r"] = 2
    /\ last.args = <<log[2].offset, log[2].length>>
    /\ last.ret = <<log[2].key, log[2].value>>
    /\ DOMAIN index = {log[2].key}

====
